---- MODULE Spec2Model ----
(***************************************************************************)
(* Trivia API (backend/flaskr/__init__.py): the question store, the        *)
(* pagination helper and the request handlers that list, search, create,   *)
(* delete and draw quiz questions.                                          *)
(*                                                                         *)
(* Python values are represented as follows.                                *)
(*   - a str is a sequence of one-character strings; an optional str is a   *)
(*     record [isNone, v] so that None and "" are different values;         *)
(*   - an optional int (the body's "category") is a record [isNone, n];     *)
(*   - an optional dict (the quiz response's "question") is a sequence of   *)
(*     length 0 (None) or 1;                                                *)
(*   - the String column Question.category holds "1", "2", ... or "NULL".   *)
(***************************************************************************)
EXTENDS Integers, Sequences, FiniteSets, TLC

VARIABLES
    store,       \* rows of the questions table
    categories,  \* rows of the categories table
    nextId,      \* next value of the questions id sequence
    req,         \* the request handled last
    resp,        \* the response to it
    pre,         \* the questions table when that request arrived
    steps,       \* number of requests handled
    h            \* a list-all / search handler between its two store queries

vars == <<store, categories, nextId, req, resp, pre, steps, h>>

-----------------------------------------------------------------------------
(* Bounds *)

MaxInit == 12       \* the initial table holds up to this many questions
MaxSteps == 1       \* requests handled in one behaviour
MaxPage == 3        \* largest page number requested
MaxLen == 22        \* longest sequence handed to paginate_questions alone
MaxOther == 2       \* commits by other requests while one handler runs
MaxSession == 4     \* questions in the table of a quiz session

QUESTIONS_PER_PAGE == 10

-----------------------------------------------------------------------------
(* Python values *)

None == [isNone |-> TRUE, v |-> <<>>]
PyStr(s) == [isNone |-> FALSE, v |-> s]
NoneInt == [isNone |-> TRUE, n |-> 0]
PyInt(n) == [isNone |-> FALSE, n |-> n]

\* bool(x) of an optional str: None and "" are falsy
Truthy(x) == ~x.isNone /\ Len(x.v) > 0

\* str(n) for the integers that occur as category ids
str(n) == CASE n = 0 -> "0" [] n = 1 -> "1" [] n = 2 -> "2" [] n = 3 -> "3"
            [] OTHER -> "n"

\* lower-casing of one character, as ILIKE folds case
Lower(c) == CASE c = "T" -> "t" [] c = "I" -> "i" [] c = "A" -> "a" [] OTHER -> c

LowerStr(s) == [i \in 1..Len(s) |-> Lower(s[i])]

\* t is a contiguous substring of s
Contains(s, t) ==
    \E k \in 0..(Len(s) - Len(t)) : \A i \in 1..Len(t) : s[k + i] = t[i]

\* column ILIKE '%term%': NULL never matches
ilike(col, term) == ~col.isNone /\ Contains(LowerStr(col.v), LowerStr(term))

\* Python's seq[start:end] with negative indices counted from the end
PySlice(s, start, end) ==
    LET n == Len(s)
        Norm(i) == IF i < 0 THEN (IF n + i < 0 THEN 0 ELSE n + i)
                   ELSE (IF i > n THEN n ELSE i)
        a == Norm(start)
        b == Norm(end)
    IN  IF a >= b THEN <<>> ELSE SubSeq(s, a + 1, b)

-----------------------------------------------------------------------------
(* The store (models.py and the database behind it) *)

\* Question.format(): the row as a dict
format(q) ==
    [id |-> q.id, question |-> q.question, answer |-> q.answer,
     category |-> q.category, difficulty |-> q.difficulty]

RECURSIVE SortById(_)
SortById(rows) ==
    IF rows = {} THEN <<>>
    ELSE LET m == CHOOSE r \in rows : \A o \in rows : r.id <= o.id
         IN  <<m>> \o SortById(rows \ {m})

Reverse(s) == [i \in 1..Len(s) |-> s[Len(s) + 1 - i]]

Range(s) == {s[i] : i \in 1..Len(s)}

\* Question(question=, answer=, difficulty=, category=).insert(): the row gets
\* the next id of the sequence; the String column stores the category as text
NewRow(id, question, answer, difficulty, category) ==
    [id |-> id, question |-> question, answer |-> answer,
     difficulty |-> difficulty,
     category |-> IF category.isNone THEN "NULL" ELSE str(category.n)]

insert(rows, row) == rows \cup {row}

\* question.delete()
delete(rows, row) == rows \ {row}

-----------------------------------------------------------------------------
(* paginate_questions *)

\* paginate_questions with the slice one element too long
paginate_questions_off_by_one(page, selection) ==
    LET start == (page - 1) * QUESTIONS_PER_PAGE
        end == start + QUESTIONS_PER_PAGE + 1
        questions == [i \in 1..Len(selection) |-> format(selection[i])]
    IN  PySlice(questions, start, end)

paginate_questions(page, selection) ==
    LET start == (page - 1) * QUESTIONS_PER_PAGE
        end == start + QUESTIONS_PER_PAGE
        questions == [i \in 1..Len(selection) |-> format(selection[i])]
    IN  PySlice(questions, start, end)

-----------------------------------------------------------------------------
(* Responses.  A response carries the HTTP status and the keys of the JSON   *)
(* body; a key the handler does not send keeps the value it has in Blank.    *)

Blank ==
    [status |-> 0, success |-> FALSE, questions |-> <<>>, total_questions |-> 0,
     question |-> <<>>, created |-> 0, deleted |-> 0, categories |-> {},
     current_category |-> None]

\* abort(code), rendered by the error handlers not_found, unprocessable and
\* internal_server_error
abort(code) == [Blank EXCEPT !.status = code]

Result(rows, nid, r) == [store |-> rows, nextId |-> nid, resp |-> r]

-----------------------------------------------------------------------------
(* GET /questions.  rows1 is the table as the query of line 90 sees it and   *)
(* rows2 as the query of line 107 sees it; fail names the store call that    *)
(* raises (0: none).  The handler has no try block: an exception is a 500.   *)

get_questions(page, rows1, cats, rows2, fail) ==
    LET selection == SortById(rows1)
        current_questions == paginate_questions(page, selection)
    IN  IF fail \in {1, 2} THEN abort(500)
        ELSE IF Len(current_questions) = 0 THEN abort(404)
        ELSE IF fail = 3 THEN abort(500)
        ELSE [Blank EXCEPT !.status = 200, !.success = TRUE,
                           !.questions = current_questions,
                           !.total_questions = Cardinality(rows2),
                           !.categories = cats]

-----------------------------------------------------------------------------
(* DELETE /questions/<question_id>.  Everything runs inside                  *)
(* try ... except BaseException: abort(422); abort(404) raises an            *)
(* HTTPException, which that except clause catches as well.                  *)

\* delete_question without the call of question.delete()
delete_question_keeps_row(rows, nid, question_id, page, fail) ==
    LET found == {q \in rows : q.id = question_id}
    IN  IF fail = 1 \/ found = {} \/ fail = 2
        THEN Result(rows, nid, abort(422))
        ELSE IF fail \in {3, 4} THEN Result(rows, nid, abort(422))
        ELSE Result(rows, nid,
                 [Blank EXCEPT !.status = 200, !.success = TRUE,
                               !.deleted = question_id,
                               !.questions = paginate_questions(page, SortById(rows)),
                               !.total_questions = Cardinality(rows)])

delete_question(rows, nid, question_id, page, fail) ==
    LET found == {q \in rows : q.id = question_id}
    IN  IF fail = 1 THEN Result(rows, nid, abort(422))       \* line 126 raises
        ELSE IF found = {} THEN Result(rows, nid, abort(422))  \* abort(404), caught
        ELSE IF fail = 2 THEN Result(rows, nid, abort(422))  \* line 132 raises
        ELSE LET after == delete(rows, CHOOSE q \in found : TRUE)
                 selection == SortById(after)
                 current_questions == paginate_questions(page, selection)
             IN  IF fail \in {3, 4}                          \* line 133 / 149 raises
                 THEN Result(after, nid, abort(422))
                 ELSE Result(after, nid,
                          [Blank EXCEPT !.status = 200, !.success = TRUE,
                                        !.deleted = question_id,
                                        !.questions = current_questions,
                                        !.total_questions = Cardinality(after)])

-----------------------------------------------------------------------------
(* POST /questions.  body has the optional keys question, answer,            *)
(* difficulty, category and searchTerm.  In the search branch selection is   *)
(* a lazy query: paginate_questions runs it on rows1 and selection.all()     *)
(* runs it again on rows2.                                                   *)

search_rows(rows, searchTerm) == {q \in rows : ilike(q.question, searchTerm.v)}

create_and_search_question(rows1, nid, body, page, rows2, fail) ==
    IF Truthy(body.searchTerm)
    THEN IF fail \in {1, 2} THEN Result(rows2, nid, abort(422))
         ELSE Result(rows2, nid,
                  [Blank EXCEPT !.status = 200, !.success = TRUE,
                      !.questions =
                          paginate_questions(page,
                              SortById(search_rows(rows1, body.searchTerm))),
                      !.total_questions =
                          Cardinality(search_rows(rows2, body.searchTerm))])
    ELSE IF fail = 1 THEN Result(rows1, nid, abort(422))     \* line 211 raises
         ELSE LET question == NewRow(nid, body.question, body.answer,
                                     body.difficulty, body.category)
                  after == insert(rows1, question)
                  selection == SortById(after)
                  current_questions == paginate_questions(page, selection)
              IN  IF fail \in {2, 3}                         \* line 213 / 221 raises
                  THEN Result(after, nid + 1, abort(422))
                  ELSE Result(after, nid + 1,
                           [Blank EXCEPT !.status = 200, !.success = TRUE,
                                         !.created = question.id,
                                         !.questions = current_questions,
                                         !.total_questions = Cardinality(after)])

-----------------------------------------------------------------------------
(* GET /categories/<category_id>/questions.  The category lookup is outside  *)
(* the try block; the questions query has no order_by, so the rows arrive in *)
(* an order the database chooses (asc: by id, or the reverse).               *)

get_question_by_category(rows, cats, category_id, page, asc, fail) ==
    LET category == {c \in cats : c.id = category_id}
    IN  IF fail = 1 THEN abort(500)                          \* line 240 raises
        ELSE IF category = {} THEN abort(404)
        ELSE IF fail = 2 THEN abort(404)                     \* line 246 raises
        ELSE LET matching == {q \in rows : q.category = str(category_id)}
                 selection == IF asc THEN SortById(matching)
                              ELSE Reverse(SortById(matching))
                 current_questions == paginate_questions(page, selection)
             IN  [Blank EXCEPT !.status = 200, !.success = TRUE,
                               !.questions = current_questions,
                               !.total_questions = Len(selection),
                               !.current_category =
                                   (CHOOSE c \in category : TRUE).type]

-----------------------------------------------------------------------------
(* POST /quizzes.  previous_questions is an optional list of ids ([isNone,   *)
(* v]); quiz_category is an optional dict (a sequence of length 0 or 1) with *)
(* the keys id and type.  Question.id has no attribute not_in_, so the third *)
(* branch raises AttributeError; not_in exists from SQLAlchemy 1.4 on        *)
(* (has_not_in).  pick is the row random.choice returns when there is one.   *)

\* fresh_quizzes with the fourth branch's NOT IN filter left out
fresh_quizzes_no_exclusion(rows, previous_questions, category, has_not_in) ==
    IF category.id = 0 /\ Len(previous_questions) = 0
    THEN [ok |-> TRUE, rows |-> rows]
    ELSE IF Len(previous_questions) = 0
    THEN [ok |-> TRUE, rows |-> {q \in rows : q.category = str(category.id)}]
    ELSE IF category.id = 0
    THEN [ok |-> FALSE, rows |-> {}]
    ELSE [ok |-> has_not_in,
          rows |-> {q \in rows : q.category = str(category.id)}]

\* the rows the chosen branch queries; ok is FALSE when the branch raises
fresh_quizzes(rows, previous_questions, category, has_not_in) ==
    IF category.id = 0 /\ Len(previous_questions) = 0
    THEN [ok |-> TRUE, rows |-> rows]
    ELSE IF Len(previous_questions) = 0
    THEN [ok |-> TRUE, rows |-> {q \in rows : q.category = str(category.id)}]
    ELSE IF category.id = 0
    THEN [ok |-> FALSE, rows |-> {}]
    ELSE [ok |-> has_not_in,
          rows |-> {q \in rows : /\ q.category = str(category.id)
                                 /\ q.id \notin Range(previous_questions)}]

get_quizzes(rows, previous_questions, quiz_category, has_not_in, pick, fail) ==
    IF Len(quiz_category) = 0 \/ previous_questions.isNone
    THEN abort(422)                                  \* TypeError on None
    ELSE LET category == quiz_category[1]
             fresh == fresh_quizzes(rows, previous_questions.v, category,
                                    has_not_in)
         IN  IF ~fresh.ok \/ fail = 1 THEN abort(422)
             ELSE [Blank EXCEPT !.status = 200, !.success = TRUE,
                       !.question = IF fresh.rows = {} THEN <<>>
                                    ELSE <<format(pick)>>,
                       !.current_category = category.type]

-----------------------------------------------------------------------------
(* Inputs *)

Ti == <<"T", "i">>
Art == <<"A", "r", "t">>

Cats == {[id |-> 1, type |-> PyStr(<<"S", "c", "i">>)],
         [id |-> 2, type |-> PyStr(Art)]}

\* the i-th row of the initial table: the first eleven are in category 1
InitRow(i) ==
    [id |-> i,
     question |-> IF i % 2 = 1 THEN PyStr(Ti) ELSE PyStr(<<"a">>),
     answer |-> PyStr(<<"a">>),
     difficulty |-> PyInt(1),
     category |-> IF i <= 11 THEN "1" ELSE "2"]

InitStore(n) == {InitRow(i) : i \in 1..n}

Pages == 0..MaxPage

Body(q, c, t) ==
    [question |-> q, answer |-> IF q.isNone THEN None ELSE PyStr(<<"a">>),
     difficulty |-> IF q.isNone THEN NoneInt ELSE PyInt(1),
     category |-> c, searchTerm |-> t]

Bodies ==
    {Body(PyStr(Ti), PyInt(1), None),
     Body(PyStr(<<"a">>), PyInt(2), None),
     Body(PyStr(<<"a">>), PyInt(3), None),
     Body(None, NoneInt, None),
     Body(None, NoneInt, PyStr(<<>>)),
     Body(None, NoneInt, PyStr(<<"t">>)),
     Body(None, NoneInt, PyStr(<<"I">>)),
     Body(None, NoneInt, PyStr(<<"z">>)),
     Body(PyStr(Ti), PyInt(1), PyStr(<<"a">>))}

QuizCategories ==
    {<<>>} \cup {<<[id |-> 0, type |-> PyStr(<<"c">>)]>>}
           \cup {<<[id |-> c.id, type |-> c.type]>> : c \in Cats}

Ids(rows) == {q.id : q \in rows}

RECURSIVE SortInts(_)
SortInts(S) ==
    IF S = {} THEN <<>>
    ELSE LET m == CHOOSE x \in S : \A y \in S : x <= y
         IN  <<m>> \o SortInts(S \ {m})

\* lists of previously asked ids a client may send
PreviousLists(rows) ==
    {None, PyStr(<<>>), PyStr(<<1>>), PyStr(<<2, 1>>), PyStr(SortInts(Ids(rows)))}

NoRow == InitRow(0)

Idle == [pc |-> "idle"]

-----------------------------------------------------------------------------
(* One request at a time: every handler runs from arrival to response.       *)

Init ==
    /\ \E n \in 0..MaxInit : store = InitStore(n) /\ nextId = n + 1
    /\ categories = Cats
    /\ req = [op |-> "none"]
    /\ resp = Blank
    /\ pre = store
    /\ steps = 0
    /\ h = Idle

Handled(request, result) ==
    /\ req' = request
    /\ resp' = result.resp
    /\ store' = result.store
    /\ nextId' = result.nextId
    /\ pre' = store
    /\ steps' = steps + 1
    /\ UNCHANGED <<categories, h>>

GetQuestions ==
    /\ steps < MaxSteps
    /\ \E page \in Pages, fail \in 0..3 :
          Handled([op |-> "get_questions", page |-> page, fail |-> fail],
                  Result(store, nextId,
                         get_questions(page, store, categories, store, fail)))

DeleteQuestion ==
    /\ steps < MaxSteps
    /\ \E question_id \in 1..nextId, page \in 1..2, fail \in 0..4 :
          Handled([op |-> "delete_question", question_id |-> question_id,
                   page |-> page, fail |-> fail],
                  delete_question(store, nextId, question_id, page, fail))

CreateAndSearchQuestion ==
    /\ steps < MaxSteps
    /\ \E body \in Bodies, page \in 1..2, fail \in 0..3 :
          Handled([op |-> "create_and_search_question", body |-> body,
                   page |-> page, fail |-> fail],
                  create_and_search_question(store, nextId, body, page, store,
                                             fail))

GetQuestionByCategory ==
    /\ steps < MaxSteps
    /\ \E category_id \in 1..3, page \in Pages, asc \in BOOLEAN, fail \in 0..2 :
          Handled([op |-> "get_question_by_category",
                   category_id |-> category_id, page |-> page, fail |-> fail],
                  Result(store, nextId,
                         get_question_by_category(store, categories, category_id,
                                                  page, asc, fail)))

\* the rows random.choice may return: any of fresh_quizzes
Picks(rows, previous_questions, quiz_category, has_not_in) ==
    IF Len(quiz_category) = 0 \/ previous_questions.isNone THEN {NoRow}
    ELSE LET fresh == fresh_quizzes(rows, previous_questions.v,
                                    quiz_category[1], has_not_in)
         IN  IF ~fresh.ok \/ fresh.rows = {} THEN {NoRow} ELSE fresh.rows

GetQuizzes ==
    /\ steps < MaxSteps
    /\ \E previous_questions \in PreviousLists(store),
          quiz_category \in QuizCategories,
          has_not_in \in BOOLEAN, fail \in 0..1 :
          \E pick \in Picks(store, previous_questions, quiz_category, has_not_in) :
             Handled([op |-> "get_quizzes",
                      previous_questions |-> previous_questions,
                      quiz_category |-> quiz_category, fail |-> fail],
                     Result(store, nextId,
                            get_quizzes(store, previous_questions, quiz_category,
                                        has_not_in, pick, fail)))

Next ==
    \/ GetQuestions
    \/ DeleteQuestion
    \/ CreateAndSearchQuestion
    \/ GetQuestionByCategory
    \/ GetQuizzes

Spec == Init /\ [][Next]_vars

-----------------------------------------------------------------------------
(* paginate_questions alone, on every sequence of rows up to MaxLen          *)

Selections ==
    {SubSeq(SortById(InitStore(MaxLen)), a, b) : a \in 1..2, b \in 0..MaxLen}
    \cup {Reverse(SortById(InitStore(n))) : n \in 0..MaxLen}

PageInit ==
    /\ store = {} /\ nextId = 1 /\ categories = Cats /\ pre = {} /\ h = Idle
    /\ steps = 0
    /\ resp = Blank
    /\ \E selection \in Selections, page \in -1..MaxPage :
          req = [op |-> "paginate_questions", page |-> page,
                 selection |-> selection]

Paginate ==
    /\ steps = 0
    /\ steps' = 1
    /\ resp' = [Blank EXCEPT !.questions =
                                 paginate_questions(req.page, req.selection)]
    /\ UNCHANGED <<store, categories, nextId, req, pre, h>>

PageNext == Paginate

PageSpec == PageInit /\ [][PageNext]_vars

-----------------------------------------------------------------------------
(* A quiz session: the client starts with previous_questions = [] and       *)
(* appends the id of every question it is given before it draws again.  The  *)
(* table does not change; has_not_in is fixed by the installed SQLAlchemy.   *)

SessionInit ==
    /\ \E n \in 0..MaxSession : store = InitStore(n) /\ nextId = n + 1
    /\ categories = Cats
    /\ pre = store
    /\ steps = 0
    /\ h = Idle
    /\ resp = Blank
    /\ \E quiz_category \in QuizCategories \ {<<>>}, has_not_in \in BOOLEAN :
          req = [op |-> "session", previous_questions |-> PyStr(<<>>),
                 quiz_category |-> quiz_category, has_not_in |-> has_not_in]

SessionDraw ==
    /\ \/ req.op = "session"
       \/ req.op = "get_quizzes" /\ resp.status = 200 /\ Len(resp.question) = 1
    /\ LET previous_questions ==
               IF req.op = "session" THEN req.previous_questions
               ELSE PyStr(Append(req.previous_questions.v, resp.question[1].id))
       IN  \E pick \in Picks(store, previous_questions, req.quiz_category,
                             req.has_not_in) :
              /\ req' = [req EXCEPT !.op = "get_quizzes",
                                    !.previous_questions = previous_questions]
              /\ resp' = get_quizzes(store, previous_questions,
                                     req.quiz_category, req.has_not_in, pick, 0)
    /\ steps' = steps + 1
    /\ UNCHANGED <<store, categories, nextId, pre, h>>

SessionNext == SessionDraw

\* the client keeps drawing while it is given questions
SessionSpec == SessionInit /\ [][SessionNext]_vars /\ WF_vars(SessionDraw)

-----------------------------------------------------------------------------
(* A list-all or search handler whose two store queries are separate         *)
(* statements, with the commits of other requests in between.  pre is the    *)
(* table the first query read; steps counts the other requests' commits.     *)

ConcInit ==
    /\ \E n \in 0..MaxInit : store = InitStore(n) /\ nextId = n + 1
    /\ categories = Cats
    /\ req = [op |-> "none"]
    /\ resp = Blank
    /\ pre = store
    /\ steps = 0
    /\ h = Idle

\* get_questions, lines 90-100: the first query, the page, abort(404)
ListBegin ==
    /\ h.pc = "idle" /\ req.op = "none"
    /\ \E page \in 1..2 :
          /\ req' = [op |-> "get_questions", page |-> page, fail |-> 0]
          /\ pre' = store
          /\ IF Len(paginate_questions(page, SortById(store))) = 0
             THEN /\ resp' = get_questions(page, store, categories, store, 0)
                  /\ h' = Idle
             ELSE /\ resp' = Blank
                  /\ h' = [pc |-> "get_questions"]
    /\ UNCHANGED <<store, categories, nextId, steps>>

\* get_questions, lines 102-113: the second query and the response
ListEnd ==
    /\ h.pc = "get_questions"
    /\ resp' = get_questions(req.page, pre, categories, store, 0)
    /\ h' = Idle
    /\ UNCHANGED <<store, categories, nextId, req, pre, steps>>

\* create_and_search_question, lines 182-195: the query runs for the page
SearchBegin ==
    /\ h.pc = "idle" /\ req.op = "none"
    /\ \E body \in {b \in Bodies : Truthy(b.searchTerm)}, page \in 1..2 :
          req' = [op |-> "create_and_search_question", body |-> body,
                  page |-> page, fail |-> 0]
    /\ pre' = store
    /\ resp' = Blank
    /\ h' = [pc |-> "create_and_search_question"]
    /\ UNCHANGED <<store, categories, nextId, steps>>

\* create_and_search_question, lines 197-203: selection.all() runs it again
SearchEnd ==
    /\ h.pc = "create_and_search_question"
    /\ resp' = create_and_search_question(pre, nextId, req.body, req.page,
                                          store, 0).resp
    /\ h' = Idle
    /\ UNCHANGED <<store, categories, nextId, req, pre, steps>>

\* another request commits question.insert() (line 211)
OtherInsert ==
    /\ steps < MaxOther
    /\ \E body \in {b \in Bodies : ~Truthy(b.searchTerm) /\ ~b.question.isNone} :
          store' = insert(store, NewRow(nextId, body.question, body.answer,
                                        body.difficulty, body.category))
    /\ nextId' = nextId + 1
    /\ steps' = steps + 1
    /\ UNCHANGED <<categories, req, resp, pre, h>>

\* another request commits question.delete() (line 132)
OtherDelete ==
    /\ steps < MaxOther
    /\ \E q \in store : store' = delete(store, q)
    /\ steps' = steps + 1
    /\ UNCHANGED <<categories, nextId, req, resp, pre, h>>

ConcNext ==
    \/ ListBegin
    \/ ListEnd
    \/ SearchBegin
    \/ SearchEnd
    \/ OtherInsert
    \/ OtherDelete

ConcSpec == ConcInit /\ [][ConcNext]_vars

-----------------------------------------------------------------------------
(* Properties *)

NoStoreFailure == req.fail = 0

PageIds(r) == {r.questions[i].id : i \in 1..Len(r.questions)}

\* C1: a delete whose id names no stored question ends with 404 Not Found,
\* never 422, and leaves the questions table as it was.
C1_DeleteMissingIsNotFound ==
    (/\ req.op = "delete_question"
     /\ NoStoreFailure
     /\ req.question_id \notin Ids(pre))
    => (resp.status = 404 /\ store = pre)

\* C2: a question returned by a quiz draw is a stored question that is not
\* among previous_questions and, when a specific category is selected, is of
\* that category.
C2_DrawnQuestionEligible ==
    (/\ req.op = "get_quizzes"
     /\ resp.status = 200
     /\ Len(resp.question) = 1)
    => LET q == resp.question[1]
           selector == req.quiz_category[1].id
       IN  /\ q \in {format(r) : r \in store}
           /\ q.id \notin Range(req.previous_questions.v)
           /\ selector # 0 => q.category = str(selector)

C2_Witness ==
    /\ req.op = "get_quizzes"
    /\ resp.status = 200
    /\ Len(resp.question) = 1
    /\ req.quiz_category[1].id = 1
    /\ Len(req.previous_questions.v) = 2
    /\ \E r \in store : r.category # "1"

\* C3: a quiz session that accumulates the drawn ids never ends a draw in an
\* error and eventually gets the successful response with a null question.
C3_SessionReachesNoMoreQuestions ==
    /\ [](resp.status \in {0, 200})
    /\ <>(req.op = "get_quizzes" /\ resp.status = 200 /\ Len(resp.question) = 0)

\* C4: a draw with a non-empty previous_questions and the 'all' selector
\* succeeds, returns a stored question outside previous_questions, and
\* returns null only if there is none.
C4_AllSelectorExcludesPrevious ==
    (/\ req.op = "get_quizzes"
     /\ NoStoreFailure
     /\ ~req.previous_questions.isNone
     /\ Len(req.previous_questions.v) > 0
     /\ Len(req.quiz_category) = 1
     /\ req.quiz_category[1].id = 0)
    => LET eligible == {q \in pre : q.id \notin Range(req.previous_questions.v)}
       IN  /\ resp.status = 200
           /\ Len(resp.question) = 0 => eligible = {}
           /\ Len(resp.question) = 1
                 => resp.question[1] \in {format(q) : q \in eligible}

\* C5: list-all and the listing of an existing category report 404 exactly
\* when the requested page is empty, and success with a non-empty page
\* otherwise.
C5_NotFoundIffEmptyPage ==
    /\ (req.op = "get_questions" /\ NoStoreFailure)
       => LET page == paginate_questions(req.page, SortById(pre))
          IN  IF Len(page) = 0 THEN resp.status = 404
              ELSE resp.status = 200 /\ resp.questions = page
    /\ (/\ req.op = "get_question_by_category"
        /\ NoStoreFailure
        /\ req.category_id \in {c.id : c \in categories})
       => LET matching == {q \in pre : q.category = str(req.category_id)}
              page == paginate_questions(req.page, SortById(matching))
          IN  IF Len(page) = 0 THEN resp.status = 404
              ELSE resp.status = 200 /\ Len(resp.questions) = Len(page)

\* C6: a POST /questions with searchTerm = "" is answered as a search that
\* matches every stored question and inserts nothing.
C6_EmptyTermIsSearch ==
    (/\ req.op = "create_and_search_question"
     /\ NoStoreFailure
     /\ req.body.searchTerm = PyStr(<<>>))
    => /\ resp.status = 200
       /\ store = pre
       /\ resp.total_questions = Cardinality(pre)
       /\ resp.questions = paginate_questions(req.page, SortById(pre))

\* the response of a list-all of the given page on the given table
ListAll(rows, page) == get_questions(page, rows, categories, rows, 0)

LastPage(rows) == (Cardinality(rows) \div QUESTIONS_PER_PAGE) + 1

\* C7 as stated: after a successful delete of q a list-all reports a total
\* one less than before, q is on no page, every other question is listed,
\* and the delete response carries the decreased total.
C7_DeleteThenList ==
    (req.op = "delete_question" /\ resp.status = 200)
    => LET q == req.question_id
       IN  /\ ListAll(store, 1).status = 200
           /\ ListAll(store, 1).total_questions
                 = ListAll(pre, 1).total_questions - 1
           /\ \A page \in 1..LastPage(pre) : q \notin PageIds(ListAll(store, page))
           /\ \A o \in pre : o.id # q =>
                 \E page \in 1..LastPage(pre) :
                    format(o) \in Range(ListAll(store, page).questions)
           /\ resp.total_questions = ListAll(pre, 1).total_questions - 1

\* C7 as amended: the same, where a list-all after the delete reports a total
\* only if a question is left; after the delete of the only question it ends
\* with 404.
C7_DeleteThenListIfAnyLeft ==
    (req.op = "delete_question" /\ resp.status = 200)
    => LET q == req.question_id
       IN  /\ q \in Ids(pre)
           /\ ListAll(pre, 1).status = 200
           /\ IF Cardinality(pre) = 1
              THEN ListAll(store, 1).status = 404
              ELSE /\ ListAll(store, 1).status = 200
                   /\ ListAll(store, 1).total_questions
                         = ListAll(pre, 1).total_questions - 1
           /\ \A page \in 1..LastPage(pre) : q \notin PageIds(ListAll(store, page))
           /\ \A o \in pre : o.id # q =>
                 \E page \in 1..LastPage(pre) :
                    format(o) \in Range(ListAll(store, page).questions)
           /\ resp.total_questions = ListAll(pre, 1).total_questions - 1

C7_Witness ==
    /\ req.op = "delete_question"
    /\ resp.status = 200
    /\ Cardinality(pre) = 11
    /\ req.question_id = 3
    /\ ListAll(pre, 2).status = 200
    /\ ListAll(store, 2).status = 404

\* C8: a creation or deletion that ends with 422 has left the questions
\* table unchanged, and one that changed it ends with success and a response
\* that reflects the new table.
C8_NoPartialSuccess ==
    (\/ req.op = "delete_question"
     \/ req.op = "create_and_search_question" /\ ~Truthy(req.body.searchTerm))
    => /\ resp.status = 422 => store = pre
       /\ store # pre =>
             /\ resp.status = 200
             /\ resp.total_questions = Cardinality(store)
             /\ resp.questions = paginate_questions(req.page, SortById(store))

\* C9: for a sequence S of length N and a page P >= 1, paginate_questions
\* returns the elements of S at positions (P-1)*10 .. min((P-1)*10+10, N), in
\* order: at most 10 elements, and none when P > ceil(N/10).
C9_PageIsClippedSlice ==
    (req.op = "paginate_questions" /\ steps = 1 /\ req.page >= 1)
    => LET S == req.selection
           N == Len(S)
           P == req.page
           lo == (P - 1) * 10
           hi == IF lo + 10 < N THEN lo + 10 ELSE N
           out == resp.questions
       IN  /\ Len(out) = IF hi > lo THEN hi - lo ELSE 0
           /\ \A i \in 1..Len(out) : out[i] = format(S[lo + i])
           /\ Len(out) <= 10
           /\ P > (N + 9) \div 10 => out = <<>>

C9_Witness ==
    /\ req.op = "paginate_questions"
    /\ steps = 1
    /\ req.page = 3
    /\ Len(req.selection) = 22
    /\ Len(resp.questions) = 2

\* C10: in a successful list-all or search response total_questions is the
\* size of the matching set the page was sliced from, so the page is never
\* longer than total_questions, whatever other requests commit meanwhile.
C10_TotalIsOfThePagesSet ==
    (/\ h.pc = "idle"
     /\ req.op \in {"get_questions", "create_and_search_question"}
     /\ resp.status = 200)
    => /\ resp.total_questions =
             IF req.op = "get_questions" THEN Cardinality(pre)
             ELSE Cardinality(search_rows(pre, req.body.searchTerm))
       /\ Len(resp.questions) <= resp.total_questions

====
